---- MODULE Spec2Model ----
(***************************************************************************)
(* Model of the hybrid retrieval core of the document question-answering   *)
(* service: VectorStoreManager (pipeline/vector_store.py), KnowledgeBase   *)
(* (pipeline/knowledge_base.py), DocumentRegistry (pipeline/registry.py)   *)
(* and Chunker (pipeline/chunker.py).                                      *)
(*                                                                         *)
(* The specifications of the module:                                       *)
(*   Spec         - the document lifecycle of the KnowledgeBase            *)
(*   SpecStore    - the VectorStoreManager under calls of its methods      *)
(*   SpecFuse     - the rank fusion of search, applied to drawn lists      *)
(*   SpecChunk    - the Chunker, applied to drawn texts and configurations *)
(*   SpecQuery    - the nearest-neighbour query loop of search             *)
(*   SpecRebuild  - _rebuild_bm25 beside a running search                  *)
(*   SpecAsk      - ask and ask_stream with failing services               *)
(*   SpecIngest   - the ingest of paged and non-paged documents            *)
(*   SpecPipeline - ask from the question to the prompt context            *)
(***************************************************************************)
EXTENDS Integers, Sequences, FiniteSets, TLC

VARIABLES
    registry,        \* DocumentRegistry: ids of the rows of table documents
    used,            \* doc ids already handed out (uuid4 never repeats)
    collection,      \* Chroma collection: composite id <<doc_id, i>> -> text
    bm25_docs,       \* VectorStoreManager._bm25_docs: id -> text, metadata {}
    results,         \* value returned by the last search / retrieve
    lastOp,          \* the last completed call and how it ended
    deleted,         \* docs whose delete_document returned True, not re-added
    vector_results,  \* search: semantic result list   (SpecFuse)
    bm25_results,    \* search: lexical result list    (SpecFuse)
    fuse_k,          \* search: parameter k            (SpecFuse)
    ranked,          \* search: returned list          (SpecFuse)
    fpc,             \* SpecFuse position
    text,            \* Chunker.chunk argument         (SpecChunk)
    chunk_size,      \* Chunker.__init__ argument      (SpecChunk)
    chunk_overlap,   \* Chunker.__init__ argument      (SpecChunk)
    chunker,         \* "unbuilt" | "ok" | "ValueError" (SpecChunk)
    chunks,          \* value returned by Chunker.chunk (SpecChunk)
    cpc,             \* SpecChunk position
    flushes,         \* Chunker: the flushes _append_with_limit made (SpecChunk)
    q_fetch_k,       \* search: parameter fetch_k     (SpecQuery)
    n_results,       \* search: n_results of the next query (SpecQuery)
    queries,         \* search: the queries made, [n, out] (SpecQuery)
    bm25,            \* _bm25: the list the scorer was built over, <<>> for None
    docs_list,       \* _rebuild_bm25: the listing of the collection
    rpc,             \* position of the thread inside _rebuild_bm25
    spc,             \* position of the thread inside search, BM25 part
    s_bm25,          \* search: the scorer it last read from self._bm25
    s_next,          \* search: position in ranked of the next hit
    reads,           \* search: <<scorer held, self._bm25_docs as read>>
    ask_op,          \* "ask" | "ask_stream"            (SpecAsk)
    retrieved,       \* ask: value returned by retrieve
    stream,          \* ask_stream: the chunks the model has sent
    answer,          \* ask: texts returned / yielded to the caller
    ask_raised,      \* ask: the exception the caller got, "none" if none
    gen_calls,       \* ask: calls of generate_content
    gen_failed,      \* ask: the generation call or its stream raised
    apc,             \* SpecAsk position
    context          \* ask: the context blocks passed to the model

lifeVars  == <<registry, used, collection, bm25_docs, results, lastOp, deleted>>
fuseVars  == <<vector_results, bm25_results, fuse_k, ranked, fpc>>
chunkVars == <<text, chunk_size, chunk_overlap, chunker, chunks, cpc, flushes>>
queryVars == <<q_fetch_k, n_results, queries>>
rebuildVars == <<bm25, docs_list, rpc, spc, s_bm25, s_next, reads>>
askVars   == <<ask_op, retrieved, stream, answer, ask_raised, gen_calls,
               gen_failed, apc, context>>
restVars  == <<queryVars, rebuildVars, askVars>>
vars      == <<lifeVars, fuseVars, chunkVars, restVars>>

(***************************************************************************)
(* Bounds                                                                  *)
(***************************************************************************)
MaxChunks == 2      \* chunks passed to one add call
MaxStore  == 2      \* chunks held by the collection
MaxK      == 2      \* parameter k of search / retrieve
MaxFuse   == 3      \* chunks known to the two result lists of SpecFuse
MaxTextLen == 5     \* characters of a chunked text
MaxChunkSize == 4   \* Chunker chunk_size
MaxOverlap == 2     \* Chunker chunk_overlap
MaxFetchK == 3      \* small values of fetch_k in SpecQuery
MaxTokens == 3      \* chunks of one streamed response
MaxDocChunks == 4   \* chunks held by the collection of SpecPipeline
MaxMatches == 1     \* chunks a question of SpecPipeline matches lexically
MaxAskK == 3        \* parameter k of ask / ask_stream
MaxPages == 2       \* pages of an ingested document

DocIds == {"d1", "d2"}
NoDoc  == "none"                 \* metadata without doc_id
Texts  == {"x", "y"}             \* chunk texts

RRF_K == 60
DefaultFetchK == 20

Min(a, b) == IF a < b THEN a ELSE b
Max(a, b) == IF a > b THEN a ELSE b

Restrict(f, S) == [x \in S |-> f[x]]
EmptyColl == [x \in {} |-> "x"]

\* injective sequences of length n over the set S
InjSeqs(S, n) == {s \in [1..n -> S] : \A i, j \in 1..n : i # j => s[i] # s[j]}

(***************************************************************************)
(* VectorStoreManager internals                                            *)
(***************************************************************************)
IdsOfDoc(coll, d) == {id \in DOMAIN coll : id[1] = d}

\* _rebuild_bm25: a failing listing empties the index; otherwise one entry
\* per stored chunk.  Only the documents are included in the listing, so the
\* entries carry the empty metadata (see BM25Hit).
rebuild_bm25(coll, getFails) ==
    IF getFails THEN EmptyColl ELSE [id \in DOMAIN coll |-> coll[id]]

\* _recreate_collection: delete_collection (failure swallowed) and
\* get_or_create_collection.
recreate_collection(coll, dropFails) ==
    IF dropFails THEN coll ELSE EmptyColl

\* _delete_by_doc_id_prefix: failures of the listing and of the delete are
\* swallowed.
delete_by_doc_id_prefix(coll, d, getFails, delFails) ==
    IF getFails THEN coll
    ELSE LET to_delete == IdsOfDoc(coll, d)
         IN  IF to_delete = {} THEN coll
             ELSE IF delFails THEN coll
             ELSE Restrict(coll, DOMAIN coll \ to_delete)

NewIds(d, n) == {<<d, i>> : i \in 0..(n - 1)}

\* Collection.add of ids d_0 .. d_(n-1): an id already present keeps its
\* stored record (Chroma ignores it), the other ids are inserted.
collection_add(coll, d, cs) ==
    [id \in DOMAIN coll \cup NewIds(d, Len(cs)) |->
        IF id \in DOMAIN coll THEN coll[id] ELSE cs[id[2] + 1]]

\* The faults one add call can meet: get1 / del1 the listing and the delete
\* of the cleanup, embed the embedding call, add1 / add2 the first and the
\* retried Collection.add, drop a failing delete_collection, get2 the listing
\* of the rebuild; si tells that the failures of the listings and of the
\* delete are StopIteration (the signal of a collection without segments)
\* and not another Exception.  A fault the call cannot reach is left unset.
Faults ==
    {f \in [get1 : BOOLEAN, del1 : BOOLEAN, embed : BOOLEAN,
            add1 : {"ok", "StopIteration", "Exception"},
            drop : BOOLEAN, add2 : {"ok", "Exception"}, get2 : BOOLEAN,
            si : BOOLEAN] :
        /\ f.get1 => ~f.del1
        /\ f.embed => f.add1 = "ok"
        /\ f.add1 # "StopIteration" => (~f.drop /\ f.add2 = "ok")
        /\ (f.embed \/ f.add1 = "Exception" \/ f.add2 = "Exception") => ~f.get2
        /\ f.si => (f.get1 \/ f.del1 \/ f.get2)}

\* What one call met and did about it: signal, the store raised StopIteration
\* from a call on the collection; recreates, the calls of
\* _recreate_collection; retries, the store calls made a second time.
StoreLog(signal, recreates, retries) ==
    [signal |-> signal, recreates |-> recreates, retries |-> retries]

NoLog == StoreLog(FALSE, 0, 0)

\* StopIteration raised inside _delete_by_doc_id_prefix: by the listing, or
\* by the delete when there is something to delete
cleanup_signal(coll, d, getFails, delFails, si) ==
    si /\ (getFails \/ (delFails /\ IdsOfDoc(coll, d) # {}))

\* the test of the doc_id left out
doc_id_missing_never(d) == FALSE

\* "if not doc_id:" over metadatas[0].get("doc_id")
doc_id_missing(d) == d = NoDoc

AddEnd(coll, bm, r, log) ==
    [collection |-> coll, bm25_docs |-> bm, raised |-> r, store |-> log]

\* VectorStoreManager.add
add(coll, bm, d, cs, f) ==
    IF Len(cs) = 0 THEN AddEnd(coll, bm, "none", NoLog)
    ELSE IF doc_id_missing(d) THEN AddEnd(coll, bm, "ValueError", NoLog)
    ELSE
      LET c1 == delete_by_doc_id_prefix(coll, d, f.get1, f.del1)
          s1 == cleanup_signal(coll, d, f.get1, f.del1, f.si)
          s2 == s1 \/ (f.si /\ f.get2)
      IN  IF f.embed THEN AddEnd(c1, bm, "embed", StoreLog(s1, 0, 0))
          ELSE IF f.add1 = "ok"
               THEN LET c2 == collection_add(c1, d, cs)
                    IN  AddEnd(c2, rebuild_bm25(c2, f.get2), "none",
                               StoreLog(s2, 0, 0))
          ELSE IF f.add1 = "Exception"
               THEN AddEnd(c1, bm, "store", StoreLog(s1, 0, 0))
          ELSE LET c3 == recreate_collection(c1, f.drop)
               IN  IF f.add2 = "ok"
                   THEN LET c4 == collection_add(c3, d, cs)
                        IN  AddEnd(c4, rebuild_bm25(c4, f.get2), "none",
                                   StoreLog(TRUE, 1, 1))
                   ELSE AddEnd(c3, bm, "store", StoreLog(TRUE, 1, 1))

\* VectorStoreManager.delete
delete(coll, d, getFails, delFails) ==
    delete_by_doc_id_prefix(coll, d, getFails, delFails)

(***************************************************************************)
(* search: result lists, Reciprocal Rank Fusion, merge and rank            *)
(***************************************************************************)
NoMeta == <<"None", -1>>         \* the empty metadata dict {}

\* entry of the semantic list (documents, metadatas, distances included)
VecHit(coll, id) ==
    [id |-> id, document |-> coll[id], metadata |-> id, distance |-> "num"]

\* entry of the lexical list: d["document"], d["metadata"], distance None;
\* _rebuild_bm25 lists the collection with include=["documents"], so
\* metas_list is empty and every entry has metadata {}.
BM25Hit(bm, id) ==
    [id |-> id, document |-> bm[id], metadata |-> NoMeta, distance |-> "None"]

RECURSIVE GCD(_, _)
GCD(a, b) == IF b = 0 THEN a ELSE GCD(b, a % b)

RECURSIVE LCMRange(_, _)
LCMRange(lo, hi) ==
    IF hi < lo THEN 1
    ELSE LET l == LCMRange(lo, hi - 1) IN (l \div GCD(l, hi)) * hi

\* Scores are kept as exact multiples of 1/Scale: 1.0 / (RRF_K + rank) is
\* Scale \div (RRF_K + rank), an integer for every rank a list can hold.
Scale == LCMRange(RRF_K, RRF_K + Max(Max(MaxStore, MaxFuse), MaxDocChunks))

rrf_term(rank) == Scale \div (RRF_K + rank)

RECURSIVE rrf_sum(_, _, _)
rrf_sum(list, key, n) ==
    IF n = 0 THEN 0
    ELSE rrf_sum(list, key, n - 1)
         + (IF list[n].document = key THEN rrf_term(n - 1) ELSE 0)

\* fusion_scores[key] after both loops; the key is the chunk text
fusion_scores(vec, bm, key) ==
    rrf_sum(vec, key, Len(vec)) + rrf_sum(bm, key, Len(bm))

RECURSIVE first_keys(_)
first_keys(s) ==
    IF s = <<>> THEN <<>>
    ELSE LET r == first_keys(SubSeq(s, 1, Len(s) - 1))
             key == s[Len(s)].document
         IN  IF \E i \in 1..Len(r) : r[i] = key THEN r ELSE Append(r, key)

\* merged.values(): keys in order of first insertion; a key of the semantic
\* list holds the last semantic item with that text, a key the lexical loop
\* inserted holds the first lexical item with that text.
merged_values(vec, bm) ==
    LET keys == first_keys(vec \o bm)
        item(key) ==
            IF \E i \in 1..Len(vec) : vec[i].document = key
            THEN vec[CHOOSE i \in 1..Len(vec) :
                        /\ vec[i].document = key
                        /\ \A j \in (i + 1)..Len(vec) : vec[j].document # key]
            ELSE bm[CHOOSE i \in 1..Len(bm) :
                        /\ bm[i].document = key
                        /\ \A j \in 1..(i - 1) : bm[j].document # key]
    IN  [p \in 1..Len(keys) |-> item(keys[p])]

\* sorted(merged.values(), key=fusion score, reverse=True): stable
sorted_by_fusion(vec, bm) ==
    LET m == merged_values(vec, bm)
        sc == [i \in 1..Len(m) |-> fusion_scores(vec, bm, m[i].document)]
        pos == [i \in 1..Len(m) |->
                   1 + Cardinality({j \in 1..Len(m) :
                         sc[j] > sc[i] \/ (sc[j] = sc[i] /\ j < i)})]
    IN  [p \in 1..Len(m) |-> m[CHOOSE i \in 1..Len(m) : pos[i] = p]]

\* the ranking returned whole
fuse_untruncated(vec, bm, k) == sorted_by_fusion(vec, bm)

\* steps 3 and 4 of search, and ranked[:k]
fuse(vec, bm, k) ==
    LET r == sorted_by_fusion(vec, bm) IN SubSeq(r, 1, Min(k, Len(r)))

\* The query loop of search: a query for more than g results fails with the
\* "contiguous 2d array" error; n_results is halved while that happens and
\* n_results > 1.  The value is the n_results of the successful query, or -1
\* when the query for one result failed too.
RECURSIVE query_n(_, _)
query_n(n, g) ==
    IF n <= g THEN n
    ELSE IF n > 1 THEN query_n(Max(1, n \div 2), g)
    ELSE -1

RECURSIVE Halvings(_)
Halvings(n) == IF n <= 1 THEN {n} ELSE {n} \cup Halvings(Max(1, n \div 2))

\* n_results of the first query
first_n(coll, fetch_k, countFails) ==
    LET total_points == Cardinality(DOMAIN coll)
    IN  IF countFails \/ total_points = 0 THEN fetch_k
        ELSE Min(fetch_k, total_points)

\* The semantic lists a query can return: the n nearest chunks in an order
\* the embedding decides; none when the query failed.
VectorLists(coll, n) ==
    IF n < 1 THEN {<<>>}
    ELSE LET m == Min(n, Cardinality(DOMAIN coll))
         IN  {[i \in 1..m |-> VecHit(coll, s[i])] : s \in InjSeqs(DOMAIN coll, m)}

\* The lexical lists the scorer can return: at most fetch_k entries of
\* _bm25_docs with a positive score, best first.
BM25Lists(bm, fetch_k) ==
    UNION {{[i \in 1..m |-> BM25Hit(bm, s[i])] : s \in InjSeqs(DOMAIN bm, m)} :
              m \in 0..Min(fetch_k, Cardinality(DOMAIN bm))}

(***************************************************************************)
(* KnowledgeBase.retrieve                                                  *)
(***************************************************************************)
\* get_chunks_by_indices: the stored chunks of doc_id at the non-negative
\* indices, ascending
RECURSIVE chunks_at(_, _, _)
chunks_at(coll, d, idx) ==
    IF idx = {} THEN <<>>
    ELSE LET i == CHOOSE x \in idx : \A y \in idx : x <= y
             rest == chunks_at(coll, d, idx \ {i})
         IN  IF <<d, i>> \in DOMAIN coll
             THEN <<[id |-> <<d, i>>, document |-> coll[<<d, i>>],
                     metadata |-> <<d, i>>, distance |-> "absent"]>> \o rest
             ELSE rest

RECURSIVE Reverse(_)
Reverse(q) == IF q = <<>> THEN <<>> ELSE Append(Reverse(Tail(q)), Head(q))

\* the neighbours in descending order of index
get_chunks_by_indices_desc(coll, d, indices) ==
    Reverse(chunks_at(coll, d, {i \in indices : i >= 0}))

get_chunks_by_indices(coll, d, indices) ==
    chunks_at(coll, d, {i \in indices : i >= 0})

dedup_key(r) ==
    IF r.metadata # NoMeta THEN r.metadata ELSE <<r.document, -1>>

Emit(acc, key, r) ==
    IF key \in acc.seen_keys THEN acc
    ELSE [expanded |-> Append(acc.expanded, r),
          seen_keys |-> acc.seen_keys \cup {key}]

RECURSIVE emit_all(_, _, _)
emit_all(acc, ns, j) ==
    IF j > Len(ns) THEN acc
    ELSE emit_all(Emit(acc, ns[j].metadata, ns[j]), ns, j + 1)

\* the body of retrieve's loop for one base result
expand_one(acc, r, coll) ==
    LET a1 == Emit(acc, dedup_key(r), r)
    IN  IF r.metadata = NoMeta THEN a1
        ELSE LET d == r.metadata[1]
                 ci == r.metadata[2]
                 neighbors == get_chunks_by_indices(coll, d,
                                  {ci - 2, ci - 1, ci + 1, ci + 2})
             IN  emit_all(a1, neighbors, 1)

RECURSIVE expand(_, _, _)
expand(base, coll, n) ==
    IF n = 0 THEN [expanded |-> <<>>, seen_keys |-> {}]
    ELSE expand_one(expand(base, coll, n - 1), base[n], coll)

retrieve(base_results, coll) ==
    expand(base_results, coll, Len(base_results)).expanded

(***************************************************************************)
(* Specifications of the store and of the knowledge base                   *)
(***************************************************************************)
ChunkLists == UNION {[1..n -> Texts] : n \in 0..MaxChunks}

OpStore(op, d, cs, raised, ret, log) ==
    [op |-> op, doc |-> d, chunks |-> cs, raised |-> raised, ret |-> ret,
     store |-> log]

Op(op, d, cs, raised, ret) == OpStore(op, d, cs, raised, ret, NoLog)

KBIdle == registry = {} /\ used = {} /\ deleted = {}

FuseIdle ==
    /\ vector_results = <<>> /\ bm25_results = <<>>
    /\ fuse_k = 0 /\ ranked = <<>> /\ fpc = "idle"

ChunkIdle ==
    /\ text = <<>> /\ chunk_size = 0 /\ chunk_overlap = 0
    /\ chunker = "unbuilt" /\ chunks = <<>> /\ cpc = "idle"
    /\ flushes = <<>>

\* VectorStoreManager.__init__ on an empty persist directory
StoreInit ==
    /\ collection = EmptyColl
    /\ bm25_docs = rebuild_bm25(EmptyColl, FALSE)
    /\ results = <<>>
    /\ lastOp = Op("init", NoDoc, <<>>, "none", FALSE)

Fits(d, cs) == Cardinality(DOMAIN collection \cup NewIds(d, Len(cs))) <= MaxStore

\* n_results of the last query of the loop, over a failing or working count()
\* and every largest n_results g the index can satisfy; -1 without a
\* successful query
QueryCounts(coll, fetch_k) ==
    {query_n(first_n(coll, fetch_k, cf), g) :
        cf \in BOOLEAN, g \in 0..Max(fetch_k, 1)}

\* The lists search can return for (k, fetch_k), over a failing or working
\* count() and every largest n_results g the index can satisfy.
SearchResults(coll, bm, k, fetch_k) ==
    LET ns == {query_n(first_n(coll, fetch_k, cf), g) :
                  cf \in BOOLEAN, g \in 0..Max(fetch_k, 1)}
        vecs == UNION {VectorLists(coll, n) : n \in ns}
    IN  {fuse(vec, lex, k) : vec \in vecs, lex \in BM25Lists(bm, fetch_k)}

---------------------------------------------------------------------------
\* VectorStoreManager.add(chunks, metadata) called with doc_id d
Add(d, cs, f) ==
    /\ Fits(d, cs)
    /\ LET o == add(collection, bm25_docs, d, cs, f)
       IN  /\ collection' = o.collection
           /\ bm25_docs' = o.bm25_docs
           /\ lastOp' = OpStore("add", d, cs, o.raised, FALSE, o.store)
    /\ results' = <<>>
    /\ UNCHANGED <<registry, used, deleted, fuseVars, chunkVars, restVars>>

\* VectorStoreManager.delete(d)
Delete(d, getFails, delFails, si) ==
    /\ collection' = delete(collection, d, getFails, delFails)
    /\ lastOp' = OpStore("delete", d, <<>>, "none", FALSE,
           StoreLog(cleanup_signal(collection, d, getFails, delFails, si), 0, 0))
    /\ results' = <<>>
    /\ UNCHANGED <<registry, used, bm25_docs, deleted, fuseVars, chunkVars, restVars>>

\* VectorStoreManager.search(query, k, fetch_k)
Search(k, fetch_k, embedFails) ==
    /\ IF embedFails
       THEN /\ results' = <<>>
            /\ lastOp' = Op("search", NoDoc, <<>>, "embed", FALSE)
       ELSE /\ results' \in SearchResults(collection, bm25_docs, k, fetch_k)
            /\ lastOp' = Op("search", NoDoc, <<>>, "none", FALSE)
    /\ UNCHANGED <<registry, used, collection, bm25_docs, deleted,
                   fuseVars, chunkVars, restVars>>

FetchKs == {1, DefaultFetchK}

QueryIdle == q_fetch_k = 0 /\ n_results = 0 /\ queries = <<>>

RebuildIdle ==
    /\ bm25 = <<>> /\ docs_list = <<>> /\ rpc = "idle"
    /\ spc = "idle" /\ s_bm25 = <<>> /\ s_next = 0 /\ reads = {}

AskIdle ==
    /\ ask_op = "none" /\ retrieved = <<>> /\ stream = <<>> /\ answer = <<>>
    /\ ask_raised = "none" /\ gen_calls = 0 /\ gen_failed = FALSE
    /\ apc = "idle" /\ context = <<>>

RestIdle == QueryIdle /\ RebuildIdle /\ AskIdle

SpecStoreInit == StoreInit /\ KBIdle /\ FuseIdle /\ ChunkIdle /\ RestIdle

SpecStoreNext ==
    \/ \E d \in DocIds \cup {NoDoc}, cs \in ChunkLists, f \in Faults : Add(d, cs, f)
    \/ \E d \in DocIds, gf \in BOOLEAN, df \in BOOLEAN, si \in BOOLEAN :
          Delete(d, gf, df, si)
    \/ \E k \in 1..MaxK, fk \in FetchKs, ef \in BOOLEAN : Search(k, fk, ef)

\* the VectorStoreManager under any sequence of calls of its public methods
SpecStore == SpecStoreInit /\ [][SpecStoreNext]_vars

---------------------------------------------------------------------------
\* KnowledgeBase.add_documents([item]) ending before DocumentRegistry.register:
\* no such file, or no loader for it
AddMissing ==
    /\ lastOp' = Op("add_documents", NoDoc, <<>>, "missing", FALSE)
    /\ results' = <<>>
    /\ UNCHANGED <<registry, used, collection, bm25_docs, deleted,
                   fuseVars, chunkVars, restVars>>

\* KnowledgeBase.add_documents([item]) whose loader raises: the row of the
\* fresh doc_id d is already registered
AddUnloadable(d) ==
    /\ d \in DocIds \ used
    /\ registry' = registry \cup {d}
    /\ used' = used \cup {d}
    /\ lastOp' = Op("add_documents", d, <<>>, "loader", FALSE)
    /\ results' = <<>>
    /\ UNCHANGED <<collection, bm25_docs, deleted, fuseVars, chunkVars, restVars>>

\* KnowledgeBase.add_documents([item]) -> _add_file / _add_url: register,
\* load, chunk (into cs) and vector_store.add
AddDocuments(d, cs, f) ==
    /\ d \in DocIds \ used
    /\ Fits(d, cs)
    /\ registry' = registry \cup {d}
    /\ used' = used \cup {d}
    /\ LET o == add(collection, bm25_docs, d, cs, f)
       IN  /\ collection' = o.collection
           /\ bm25_docs' = o.bm25_docs
           /\ lastOp' = OpStore("add_documents", d, cs, o.raised, FALSE,
                                 o.store)
    /\ results' = <<>>
    /\ UNCHANGED <<deleted, fuseVars, chunkVars, restVars>>

\* DocumentRegistry.remove with the rowcount test lost: always True
registry_remove_true(reg, d) == [registry |-> reg \ {d}, removed |-> TRUE]

\* DocumentRegistry.remove: DELETE ... WHERE id = d, True when a row went
registry_remove(reg, d) == [registry |-> reg \ {d}, removed |-> d \in reg]

\* the chunks are deleted whatever the registry answered
should_delete_always(removed) == TRUE

\* "if removed:" of delete_document
should_delete(removed) == removed

\* KnowledgeBase.delete_document(d)
DeleteDocument(d, getFails, delFails, si) ==
    LET r == registry_remove(registry, d)
    IN  /\ registry' = r.registry
        /\ collection' = IF should_delete(r.removed)
                         THEN delete(collection, d, getFails, delFails)
                         ELSE collection
        /\ deleted' = IF r.removed THEN deleted \cup {d} ELSE deleted
        /\ lastOp' = OpStore("delete_document", d, <<>>, "none", r.removed,
              StoreLog(should_delete(r.removed)
                         /\ cleanup_signal(collection, d, getFails, delFails, si),
                       0, 0))
        /\ results' = <<>>
        /\ UNCHANGED <<used, bm25_docs, fuseVars, chunkVars, restVars>>

\* KnowledgeBase.retrieve(query, k): search with the default fetch_k, then
\* the neighbour expansion; the lookup of the neighbours can raise
Retrieve(k, embedFails) ==
    /\ IF embedFails
       THEN /\ results' = <<>>
            /\ lastOp' = Op("retrieve", NoDoc, <<>>, "embed", FALSE)
       ELSE \E base \in SearchResults(collection, bm25_docs, k, DefaultFetchK) :
              \/ /\ results' = retrieve(base, collection)
                 /\ lastOp' = Op("retrieve", NoDoc, <<>>, "none", FALSE)
              \/ /\ \E i \in 1..Len(base) : base[i].metadata # NoMeta
                 /\ results' = <<>>
                 /\ lastOp' = Op("retrieve", NoDoc, <<>>, "store", FALSE)
    /\ UNCHANGED <<registry, used, collection, bm25_docs, deleted,
                   fuseVars, chunkVars, restVars>>

Init == StoreInit /\ KBIdle /\ FuseIdle /\ ChunkIdle /\ RestIdle

Next ==
    \/ AddMissing
    \/ \E d \in DocIds : AddUnloadable(d)
    \/ \E d \in DocIds, cs \in ChunkLists, f \in Faults : AddDocuments(d, cs, f)
    \/ \E d \in DocIds, gf \in BOOLEAN, df \in BOOLEAN, si \in BOOLEAN :
          DeleteDocument(d, gf, df, si)
    \/ \E k \in 1..MaxK, ef \in BOOLEAN : Retrieve(k, ef)

\* the KnowledgeBase over its registry and its VectorStoreManager
Spec == Init /\ [][Next]_vars

(***************************************************************************)
(* Claims about the store and the knowledge base                           *)
(***************************************************************************)
DocOf(hit) == hit.id[1]

\* C1: once delete_document(d) has returned True, no later retrieve returns
\* a chunk ingested for d, and the registry does not list d.
C1_DeletedNeverReturned ==
    \A d \in deleted :
        /\ d \notin registry
        /\ \A i \in 1..Len(results) : DocOf(results[i]) # d

\* C2: after every completed add or delete of the VectorStoreManager the
\* lexical index holds exactly the chunks of the embedding store.
C2_LexicalEqualsStore ==
    (lastOp.op \in {"add", "delete"} /\ lastOp.raised = "none")
        => bm25_docs = collection

\* C3: after a completed add of n >= 1 chunks for doc_id d the store holds
\* for d exactly the ids d_0 .. d_(n-1) with the texts of that call, whatever
\* an earlier add stored for d and whether or not the cleanup failed.
C3_ReingestOneGeneration ==
    (lastOp.op = "add" /\ lastOp.raised = "none" /\ Len(lastOp.chunks) >= 1)
        => /\ IdsOfDoc(collection, lastOp.doc)
                = NewIds(lastOp.doc, Len(lastOp.chunks))
           /\ \A id \in IdsOfDoc(collection, lastOp.doc) :
                id[2] < Len(lastOp.chunks)
                    => collection[id] = lastOp.chunks[id[2] + 1]

\* C5: the sequence returned by retrieve holds each stored chunk at most once.
C5_RetrieveEmitsOnce ==
    lastOp.op = "retrieve"
        => \A i, j \in 1..Len(results) :
              i # j => results[i].id # results[j].id

\* C11: whenever the store raised StopIteration from a collection call during
\* an add or a delete, the collection was recreated exactly once and the
\* failed call was made a second time exactly once.
C11_TransientRecreateRetryOnce ==
    (lastOp.op \in {"add", "delete"} /\ lastOp.store.signal)
        => (lastOp.store.recreates = 1 /\ lastOp.store.retries = 1)

\* C13: delete_document of a doc_id the registry does not know returns
\* False, raises nothing and leaves the registry, the embedding store and
\* the lexical index as they were.
C13_UnknownDeleteIsNoOp ==
    [][(lastOp'.op = "delete_document" /\ lastOp'.doc \notin registry)
          => /\ lastOp'.ret = FALSE
             /\ lastOp'.raised = "none"
             /\ UNCHANGED <<registry, collection, bm25_docs>>]_vars

\* delete_document of an unknown doc_id has returned False over a store that
\* holds chunks
C13_Witness ==
    /\ lastOp.op = "delete_document" /\ lastOp.ret = FALSE
    /\ lastOp.doc \notin deleted
    /\ collection # EmptyColl /\ bm25_docs # EmptyColl

\* C14: a delete_document(d) that directly follows a delete_document(d)
\* changes neither the registry nor the embedding store nor the lexical
\* index, and raises nothing.
C14_DeleteIdempotent ==
    [][(/\ lastOp.op = "delete_document"
        /\ lastOp'.op = "delete_document"
        /\ lastOp'.doc = lastOp.doc)
          => /\ UNCHANGED <<registry, collection, bm25_docs>>
             /\ lastOp'.raised = "none"]_vars

\* delete_document(d) has been repeated for a deleted document whose chunks
\* the first call left in the store
C14_Witness ==
    /\ lastOp.op = "delete_document" /\ lastOp.ret = FALSE
    /\ lastOp.doc \in deleted
    /\ IdsOfDoc(collection, lastOp.doc) # {}

\* C17: add of a non-empty chunk list whose metadata has no doc_id raises
\* ValueError and changes neither the embedding store nor the lexical index.
C17_MissingDocIdRejected ==
    [][(/\ lastOp'.op = "add"
        /\ lastOp'.doc = NoDoc
        /\ Len(lastOp'.chunks) >= 1)
          => /\ lastOp'.raised = "ValueError"
             /\ UNCHANGED <<collection, bm25_docs>>]_vars

\* an add without doc_id has been rejected over a store that holds chunks
C17_Witness ==
    /\ lastOp.op = "add" /\ lastOp.doc = NoDoc
    /\ lastOp.raised = "ValueError"
    /\ collection # EmptyColl /\ bm25_docs # EmptyColl

\* C27: a document whose ingest raised is not listed by the registry.
C27_FailedIngestNotListed ==
    (/\ lastOp.op = "add_documents"
     /\ lastOp.raised # "none"
     /\ lastOp.doc # NoDoc)
        => lastOp.doc \notin registry

\* C28: every chunk in the embedding store belongs to a document that the
\* registry lists.
C28_NoChunkWithoutRegistryRow ==
    \A id \in DOMAIN collection : id[1] \in registry

\* C26: an add for document d leaves the stored chunks of every other
\* document unchanged, on every path of the call, the recovery that recreates
\* the collection and retries the write included.
C26_AddLeavesOtherDocuments ==
    [][lastOp'.op = "add" =>
          \A id \in DOMAIN collection \cup DOMAIN collection' :
              id[1] # lastOp'.doc =>
                  /\ id \in DOMAIN collection /\ id \in DOMAIN collection'
                  /\ collection'[id] = collection[id]]_vars

\* C19: every hit search returns, also one that only the lexical index
\* produced, carries the metadata of its chunk in the embedding store: its
\* (doc_id, chunk_index).
C19_LexicalHitHasIdentity ==
    lastOp.op = "search"
        => \A i \in 1..Len(results) : results[i].metadata = results[i].id

\* C10: after an add for document d whose embedding call failed, the store
\* holds no chunk of d.
C10_EmbedFailureLeavesNoChunk ==
    (lastOp.op = "add" /\ lastOp.raised = "embed")
        => IdsOfDoc(collection, lastOp.doc) = {}

(***************************************************************************)
(* SpecFuse: steps 3 to 5 of search applied to drawn result lists          *)
(***************************************************************************)
StoreIdle ==
    /\ collection = EmptyColl /\ bm25_docs = EmptyColl /\ results = <<>>
    /\ lastOp = Op("init", NoDoc, <<>>, "none", FALSE)

\* the stored chunks the two lists are drawn from: two documents
FuseIds == NewIds("d1", MaxFuse - 1) \cup {<<"d2", 0>>}

\* The two lists are what a query and the scorer return over one stored
\* state tm: no chunk twice in a list, any texts.
SpecFuseInit ==
    /\ \E tm \in [FuseIds -> Texts] :
         /\ vector_results \in
               UNION {VectorLists(tm, n) : n \in 0..Cardinality(FuseIds)}
         /\ bm25_results \in BM25Lists(tm, DefaultFetchK)
    /\ fuse_k \in 1..MaxK
    /\ ranked = <<>>
    /\ fpc = "lists"
    /\ StoreIdle /\ KBIdle /\ ChunkIdle /\ RestIdle

\* search from "3. Reciprocal Rank Fusion" to the return
Fuse ==
    /\ fpc = "lists"
    /\ ranked' = fuse(vector_results, bm25_results, fuse_k)
    /\ fpc' = "fused"
    /\ UNCHANGED <<vector_results, bm25_results, fuse_k, lifeVars, chunkVars, restVars>>

SpecFuseNext == Fuse

SpecFuse == SpecFuseInit /\ [][SpecFuseNext]_vars

\* 0-based rank of chunk id in a result list, -1 when absent
RankIn(list, id) ==
    IF \E i \in 1..Len(list) : list[i].id = id
    THEN (CHOOSE i \in 1..Len(list) : list[i].id = id) - 1
    ELSE -1

Contribution(list, id) ==
    IF RankIn(list, id) < 0 THEN 0 ELSE Scale \div (RRF_K + RankIn(list, id))

\* 1/(60+rS) + 1/(60+rL) of the chunk, in units of 1/Scale
ChunkScore(id) ==
    Contribution(vector_results, id) + Contribution(bm25_results, id)

\* position of the chunk in merge-insertion order
MergeIndex(id) ==
    IF RankIn(vector_results, id) >= 0 THEN RankIn(vector_results, id)
    ELSE Len(vector_results) + RankIn(bm25_results, id)

\* C4: every returned chunk is ranked by 1/(60+rS) + 1/(60+rL) over its own
\* ranks in the two lists, the output is in descending order of that score
\* and equal scores keep merge-insertion order.
C4_FusedScoreByRank ==
    fpc = "fused" =>
        /\ \A p \in 1..Len(ranked) :
              fusion_scores(vector_results, bm25_results, ranked[p].document)
                  = ChunkScore(ranked[p].id)
        /\ \A p, q \in 1..Len(ranked) :
              p < q =>
                 \/ ChunkScore(ranked[p].id) > ChunkScore(ranked[q].id)
                 \/ /\ ChunkScore(ranked[p].id) = ChunkScore(ranked[q].id)
                    /\ MergeIndex(ranked[p].id) < MergeIndex(ranked[q].id)

\* the chunks of the two lists
ListedIds ==
    {vector_results[i].id : i \in 1..Len(vector_results)}
        \cup {bm25_results[i].id : i \in 1..Len(bm25_results)}

\* C20: the merge keeps every chunk of the two lists exactly once (the
\* first k of them are returned), and a chunk of the semantic list is
\* returned as the entry of that list, with its text, metadata and distance.
C20_MergeKeepsEachChunkOnce ==
    fpc = "fused" =>
        /\ \A p, q \in 1..Len(ranked) : p # q => ranked[p].id # ranked[q].id
        /\ Len(ranked) = Min(fuse_k, Cardinality(ListedIds))
        /\ \A p \in 1..Len(ranked) :
              IF RankIn(vector_results, ranked[p].id) >= 0
              THEN ranked[p]
                     = vector_results[RankIn(vector_results, ranked[p].id) + 1]
              ELSE ranked[p]
                     = bm25_results[RankIn(bm25_results, ranked[p].id) + 1]

(***************************************************************************)
(* SpecQuery: one call of search, query by query                           *)
(***************************************************************************)
\* the retry loop goes on after a "contiguous 2d array" failure
may_halve(n) == n > 1

\* n_results lowered by one instead of halved
halve_minus_one(n) == Max(1, n - 1)

\* n_results = max(1, n_results // 2)
halve(n) == Max(1, n \div 2)

Query(n, out) == [n |-> n, out |-> out]

\* the stores search runs over: up to MaxStore chunks of one document
QueryStores == UNION {[NewIds("d1", n) -> Texts] : n \in 0..MaxStore}

QueryFetchKs == 1..MaxFetchK \cup {DefaultFetchK}

SpecQueryInit ==
    /\ collection \in QueryStores
    /\ bm25_docs = rebuild_bm25(collection, FALSE)
    /\ results = <<>>
    /\ lastOp = Op("init", NoDoc, <<>>, "none", FALSE)
    /\ vector_results = <<>> /\ bm25_results = <<>>
    /\ fuse_k = 0 /\ ranked = <<>> /\ fpc = "start"
    /\ KBIdle /\ ChunkIdle /\ QueryIdle /\ RebuildIdle /\ AskIdle

\* search(query, k, fetch_k) up to the first query: the query is embedded,
\* the collection is counted (the count can fail), n_results is set
Begin(k, fk, countFails) ==
    /\ fpc = "start"
    /\ fuse_k' = k
    /\ q_fetch_k' = fk
    /\ n_results' = first_n(collection, fk, countFails)
    /\ queries' = <<>>
    /\ fpc' = "query"
    /\ UNCHANGED <<vector_results, bm25_results, ranked, lifeVars, chunkVars,
                   rebuildVars, askVars>>

\* self._collection.query(...) returns: the loop breaks and the hits are
\* copied into vector_results
QueryOk ==
    /\ fpc = "query"
    /\ vector_results' \in VectorLists(collection, n_results)
    /\ queries' = Append(queries, Query(n_results, "ok"))
    /\ fpc' = "bm25"
    /\ UNCHANGED <<bm25_results, fuse_k, ranked, q_fetch_k, n_results,
                   lifeVars, chunkVars, rebuildVars, askVars>>

\* self._collection.query(...) raises: with the "contiguous 2d array"
\* message ("degenerate") and n_results > 1 the count is halved and the
\* loop continues; otherwise the exception is re-raised, caught by the outer
\* handler, and vector_results stays empty
QueryFails(kind) ==
    /\ fpc = "query"
    /\ queries' = Append(queries, Query(n_results, kind))
    /\ IF kind = "degenerate" /\ may_halve(n_results)
       THEN /\ n_results' = halve(n_results)
            /\ UNCHANGED <<vector_results, fpc>>
       ELSE /\ vector_results' = <<>>
            /\ fpc' = "bm25"
            /\ UNCHANGED n_results
    /\ UNCHANGED <<bm25_results, fuse_k, ranked, q_fetch_k, lifeVars, chunkVars,
                   rebuildVars, askVars>>

\* "2. BM25 search"
Lexical ==
    /\ fpc = "bm25"
    /\ bm25_results' \in BM25Lists(bm25_docs, q_fetch_k)
    /\ fpc' = "lists"
    /\ UNCHANGED <<vector_results, fuse_k, ranked, queryVars,
                   lifeVars, chunkVars, rebuildVars, askVars>>

SpecQueryNext ==
    \/ \E k \in 1..MaxK, fk \in QueryFetchKs, cf \in BOOLEAN : Begin(k, fk, cf)
    \/ QueryOk
    \/ \E kind \in {"degenerate", "other"} : QueryFails(kind)
    \/ Lexical
    \/ Fuse

\* one pass of the loop: the query returns or raises
QueryStep == QueryOk \/ \E kind \in {"degenerate", "other"} : QueryFails(kind)

\* every query the loop makes comes back
SpecQuery == SpecQueryInit /\ [][SpecQueryNext]_vars /\ WF_vars(QueryStep)

LastQuery == queries[Len(queries)]

C12_Halving ==
    /\ \A i \in 1..(Len(queries) - 1) :
          /\ queries[i].out = "degenerate" /\ queries[i].n > 1
          /\ queries[i + 1].n = queries[i].n \div 2
          /\ queries[i + 1].n >= 1
    /\ (fpc = "query" /\ queries # <<>>) =>
          (n_results = LastQuery.n \div 2 /\ n_results >= 1)
    /\ fpc \in {"bm25", "lists", "fused"} =>
          /\ queries # <<>>
          /\ LastQuery.out = "degenerate" => LastQuery.n = 1
          /\ LastQuery.out # "ok" => vector_results = <<>>
    /\ (fpc = "fused" /\ LastQuery.out # "ok") =>
          ranked = fuse(<<>>, bm25_results, fuse_k)

\* C12: each query that fails with the degenerate error at a count above 1
\* is followed by a query with half the count (integer division, at least
\* 1); the loop ends only with a successful query, another failure, or a
\* failed query of count 1; the loop always ends, search does not raise
\* and after a failed last query it returns the fusion of the lexical list
\* alone.
C12_HalvingTerminates == []C12_Halving /\ ((fpc = "query") ~> (fpc = "bm25"))

\* a search whose queries failed down to count 1 has returned lexical hits
C12_Witness ==
    /\ fpc = "fused" /\ Len(queries) >= 3
    /\ LastQuery.out = "degenerate" /\ LastQuery.n = 1
    /\ ranked # <<>>

(***************************************************************************)
(* SpecRebuild: one thread runs _rebuild_bm25 (at the end of add) while    *)
(* another runs the BM25 part of search on the same VectorStoreManager.    *)
(* Every read and write of self._bm25 and self._bm25_docs is one step; in  *)
(* this specification bm25_docs is the list itself, its ids in order, and  *)
(* a scorer is the list it was built over.                                 *)
(***************************************************************************)
RebuildIds == {<<"d1", 0>>, <<"d2", 0>>}

\* the lists a generation of the index can hold
Generations == UNION {InjSeqs(RebuildIds, n) : n \in 0..MaxStore}

SpecRebuildInit ==
    /\ bm25_docs \in Generations
    /\ bm25 = bm25_docs
    /\ docs_list \in Generations
    /\ rpc = "get" /\ spc = "start"
    /\ s_bm25 = <<>> /\ s_next = 0 /\ reads = {}
    /\ collection = EmptyColl /\ results = <<>>
    /\ lastOp = Op("init", NoDoc, <<>>, "none", FALSE)
    /\ KBIdle /\ FuseIdle /\ ChunkIdle /\ QueryIdle /\ AskIdle

RebuildKeeps == <<registry, used, collection, results, lastOp, deleted,
                  fuseVars, chunkVars, queryVars, askVars>>

\* results = self._collection.get(include=["documents"]), or the handler's
\* first assignment self._bm25 = None
RebuildGet(getFails) ==
    /\ rpc = "get"
    /\ IF getFails THEN bm25' = <<>> /\ rpc' = "failed"
                   ELSE rpc' = "clear" /\ UNCHANGED bm25
    /\ UNCHANGED <<bm25_docs, docs_list, spc, s_bm25, s_next, reads, RebuildKeeps>>

\* the handler's second assignment self._bm25_docs = []
RebuildFailed ==
    /\ rpc = "failed"
    /\ bm25_docs' = <<>>
    /\ rpc' = "done"
    /\ UNCHANGED <<bm25, docs_list, spc, s_bm25, s_next, reads, RebuildKeeps>>

\* self._bm25_docs = []
RebuildClear ==
    /\ rpc = "clear"
    /\ bm25_docs' = <<>>
    /\ rpc' = "append"
    /\ UNCHANGED <<bm25, docs_list, spc, s_bm25, s_next, reads, RebuildKeeps>>

\* self._bm25_docs.append({...}) for the next document of the listing
RebuildAppend ==
    /\ rpc = "append"
    /\ Len(bm25_docs) < Len(docs_list)
    /\ bm25_docs' = Append(bm25_docs, docs_list[Len(bm25_docs) + 1])
    /\ UNCHANGED <<bm25, docs_list, rpc, spc, s_bm25, s_next, reads, RebuildKeeps>>

\* after the loop: self._bm25 = None for an empty list, otherwise
\* self._bm25 = BM25Okapi(tokenized)
RebuildPublish ==
    /\ rpc = "append"
    /\ Len(bm25_docs) = Len(docs_list)
    /\ bm25' = bm25_docs
    /\ rpc' = "done"
    /\ UNCHANGED <<bm25_docs, docs_list, spc, s_bm25, s_next, reads, RebuildKeeps>>

\* "if self._bm25 ...": the first operand of the guard
SearchReadScorer ==
    /\ spc = "start"
    /\ s_bm25' = bm25
    /\ spc' = IF bm25 = <<>> THEN "done" ELSE "guard"
    /\ UNCHANGED <<bm25, bm25_docs, docs_list, rpc, s_next, reads, RebuildKeeps>>

\* "... and self._bm25_docs:": the second operand of the guard
SearchReadDocs ==
    /\ spc = "guard"
    /\ reads' = reads \cup {<<s_bm25, bm25_docs>>}
    /\ spc' = IF bm25_docs = <<>> THEN "done" ELSE "scores"
    /\ UNCHANGED <<bm25, bm25_docs, docs_list, rpc, s_bm25, s_next, RebuildKeeps>>

\* scores = self._bm25.get_scores(tokenized_q) and ranked: self._bm25 is
\* read again (None raises AttributeError, which is swallowed); every
\* document of the scorer gets a positive score
SearchScores ==
    /\ spc = "scores"
    /\ s_bm25' = bm25
    /\ s_next' = 1
    /\ spc' = IF bm25 = <<>> THEN "done" ELSE "pick"
    /\ UNCHANGED <<bm25, bm25_docs, docs_list, rpc, reads, RebuildKeeps>>

\* d = self._bm25_docs[idx] for the next idx of ranked; an IndexError is
\* swallowed and ends the loop; after the last idx search goes on
SearchPick ==
    /\ spc = "pick"
    /\ IF s_next > Len(s_bm25)
       THEN spc' = "done" /\ UNCHANGED <<s_next, reads>>
       ELSE /\ reads' = reads \cup {<<s_bm25, bm25_docs>>}
            /\ IF s_next > Len(bm25_docs)
               THEN spc' = "done" /\ UNCHANGED s_next
               ELSE s_next' = s_next + 1 /\ UNCHANGED spc
    /\ UNCHANGED <<bm25, bm25_docs, docs_list, rpc, s_bm25, RebuildKeeps>>

SpecRebuildNext ==
    \/ \E gf \in BOOLEAN : RebuildGet(gf)
    \/ RebuildFailed
    \/ RebuildClear
    \/ RebuildAppend
    \/ RebuildPublish
    \/ SearchReadScorer
    \/ SearchReadDocs
    \/ SearchScores
    \/ SearchPick

SpecRebuild == SpecRebuildInit /\ [][SpecRebuildNext]_vars

\* C15: whenever search reads self._bm25_docs, the list it gets is the one
\* the scorer it holds was built over: never the list of another generation,
\* never an emptied or half-filled list.
C15_SearchSeesOneGeneration ==
    \A r \in reads : r[2] = r[1]

(***************************************************************************)
(* SpecAsk: RAGPipeline.ask and ask_stream over a retrieve that returns or *)
(* raises and a model that answers, streams or fails.                      *)
(***************************************************************************)
NoDocuments == "No relevant documents found. Please ingest documents first."
NoResponse  == "I couldn't generate a response."

\* what retrieve can return
Retrieved == ChunkLists

AskKeeps == <<lifeVars, fuseVars, chunkVars, queryVars, rebuildVars, context>>

SpecAskInit ==
    /\ ask_op = "none" /\ retrieved = <<>> /\ stream = <<>> /\ answer = <<>>
    /\ ask_raised = "none" /\ gen_calls = 0 /\ gen_failed = FALSE
    /\ apc = "start" /\ context = <<>>
    /\ StoreIdle /\ KBIdle /\ FuseIdle /\ ChunkIdle /\ QueryIdle /\ RebuildIdle

\* ask / ask_stream up to the generation: retrieve raises (the embedding of
\* the question failed, or the store did) or returns rs; without results the
\* fixed message is the answer
AskRetrieve(op, rs, fault) ==
    /\ apc = "start"
    /\ ask_op' = op
    /\ IF fault # "none"
       THEN /\ ask_raised' = fault
            /\ apc' = "done"
            /\ UNCHANGED <<retrieved, answer>>
       ELSE /\ retrieved' = rs
            /\ answer' = IF rs = <<>> THEN <<NoDocuments>> ELSE <<>>
            /\ apc' = IF rs = <<>> THEN "done" ELSE "generate"
            /\ UNCHANGED ask_raised
    /\ UNCHANGED <<stream, gen_calls, gen_failed, AskKeeps>>

\* ask: return self.llm_service.generate(...); generate_content raises, or
\* answers with a text or with none
Generate(outcome) ==
    /\ apc = "generate" /\ ask_op = "ask"
    /\ gen_calls' = gen_calls + 1
    /\ apc' = "done"
    /\ IF outcome = "error"
       THEN ask_raised' = "generation" /\ gen_failed' = TRUE /\ UNCHANGED answer
       ELSE /\ answer' = <<IF outcome = "text" THEN "answer" ELSE NoResponse>>
            /\ UNCHANGED <<ask_raised, gen_failed>>
    /\ UNCHANGED <<ask_op, retrieved, stream, AskKeeps>>

\* ask_stream -> generate_stream: generate_content(prompt, stream=True);
\* a failure is caught by "except Exception: return"
StreamOpen(fails) ==
    /\ apc = "generate" /\ ask_op = "ask_stream"
    /\ gen_calls' = gen_calls + 1
    /\ gen_failed' = fails
    /\ apc' = IF fails THEN "done" ELSE "stream"
    /\ UNCHANGED <<ask_op, retrieved, stream, answer, ask_raised, AskKeeps>>

\* generate_stream: the next chunk of the response: with text (yielded),
\* without text, one whose text cannot be extracted (skipped), or the
\* iteration raises and the generator returns
StreamChunk(kind) ==
    /\ apc = "stream"
    /\ Len(stream) < MaxTokens
    /\ stream' = Append(stream, kind)
    /\ answer' = IF kind = "text" THEN Append(answer, "token") ELSE answer
    /\ gen_failed' = (kind = "error")
    /\ apc' = IF kind = "error" THEN "done" ELSE "stream"
    /\ UNCHANGED <<ask_op, retrieved, ask_raised, gen_calls, AskKeeps>>

\* generate_stream: the response is exhausted
StreamEnd ==
    /\ apc = "stream"
    /\ apc' = "done"
    /\ UNCHANGED <<ask_op, retrieved, stream, answer, ask_raised, gen_calls,
                   gen_failed, AskKeeps>>

SpecAskNext ==
    \/ \E op \in {"ask", "ask_stream"}, rs \in Retrieved,
          fault \in {"none", "embed", "store"} : AskRetrieve(op, rs, fault)
    \/ \E outcome \in {"text", "empty", "error"} : Generate(outcome)
    \/ \E fails \in BOOLEAN : StreamOpen(fails)
    \/ \E kind \in {"text", "empty", "bad", "error"} : StreamChunk(kind)
    \/ StreamEnd

SpecAsk == SpecAskInit /\ [][SpecAskNext]_vars

\* C16: a failure of the generation call reaches the caller of ask or
\* ask_stream as an exception, after one call of the model and no retry; a
\* failure inside retrieve reaches the caller before any generation call.
C16_UpstreamFailureSurfaces ==
    apc = "done" =>
        /\ gen_failed => (ask_raised = "generation" /\ gen_calls = 1)
        /\ ask_raised \in {"embed", "store"} => gen_calls = 0

(***************************************************************************)
(* SpecIngest: KnowledgeBase._add_file and _add_url with the metadata of   *)
(* every chunk.  In this specification the collection holds, under each    *)
(* composite id, the document with its metadata record.                    *)
(***************************************************************************)
Meta(d, i, page) == [doc_id |-> d, chunk_index |-> i, page_number |-> page]

Page(label, cs) == [label |-> label, chunks |-> cs]

\* the loop over loader.load_pages(file_path): all_chunks and all_metadatas
\* after the first n pages
RECURSIVE all_pages(_, _, _)
all_pages(d, pages, n) ==
    IF n = 0 THEN [all_chunks |-> <<>>, all_metadatas |-> <<>>]
    ELSE LET before == all_pages(d, pages, n - 1)
             pc == pages[n].chunks
             base == Len(before.all_chunks)
         IN  [all_chunks |-> before.all_chunks \o pc,
              all_metadatas |-> before.all_metadatas
                  \o [c \in 1..Len(pc) |-> Meta(d, base + c - 1, pages[n].label)]]

\* the metadata of a non-paged document: page_number 1
text_metadatas(d, cs) == [i \in 1..Len(cs) |-> Meta(d, i - 1, 1)]

\* chunk_index counted from 1
indexed_metadatas_from_one(ms) ==
    [i \in 1..Len(ms) |-> [ms[i] EXCEPT !.chunk_index = i]]

\* add: metadatas = [{**m, "chunk_index": i} for i, m in enumerate(metadata)]
indexed_metadatas(ms) ==
    [i \in 1..Len(ms) |-> [ms[i] EXCEPT !.chunk_index = i - 1]]

\* VectorStoreManager.add(chunks, metadatas) with a list of metadata records
add_with_metadatas(coll, bm, cs, ms, f) ==
    LET metadatas == indexed_metadatas(ms)
        d == IF Len(cs) = 0 THEN NoDoc ELSE metadatas[1].doc_id
        records == [i \in 1..Len(cs) |->
                       [document |-> cs[i], metadata |-> metadatas[i]]]
    IN  add(coll, bm, d, records, f)

\* the chunks Chunker.chunk returns for page (or text) p: up to MaxChunks
\* texts, told apart by page and position
PageChunkLists(p) == {[c \in 1..n |-> <<p, c>>] : n \in 0..MaxChunks}

\* what load_pages yields, chunked: up to MaxPages pages labelled 1, 2, ...
PageLists ==
    UNION {{pl \in [1..n -> {Page(p, cs) : p \in 1..n,
                                cs \in UNION {PageChunkLists(q) : q \in 1..n}}] :
               \A p \in 1..n : /\ pl[p].label = p
                               /\ pl[p].chunks \in PageChunkLists(p)} :
           n \in 0..MaxPages}

SpecIngestInit == StoreInit /\ KBIdle /\ FuseIdle /\ ChunkIdle /\ RestIdle

\* _add_file for a loader with load_pages: register, chunk page by page,
\* vector_store.add when there is a chunk
IngestPages(d, pages, f) ==
    /\ d \in DocIds \ used
    /\ registry' = registry \cup {d}
    /\ used' = used \cup {d}
    /\ LET a == all_pages(d, pages, Len(pages))
           o == IF a.all_chunks # <<>>
                THEN add_with_metadatas(collection, bm25_docs, a.all_chunks,
                                        a.all_metadatas, f)
                ELSE AddEnd(collection, bm25_docs, "none", NoLog)
       IN  /\ collection' = o.collection
           /\ bm25_docs' = o.bm25_docs
           /\ lastOp' = OpStore("add_documents", d, pages, o.raised, FALSE,
                                 o.store)
    /\ results' = <<>>
    /\ UNCHANGED <<deleted, fuseVars, chunkVars, restVars>>

\* _add_file for a loader without load_pages, and _add_url: register, chunk
\* the whole text, vector_store.add
IngestText(d, cs, f) ==
    /\ d \in DocIds \ used
    /\ registry' = registry \cup {d}
    /\ used' = used \cup {d}
    /\ LET o == add_with_metadatas(collection, bm25_docs, cs,
                                   text_metadatas(d, cs), f)
       IN  /\ collection' = o.collection
           /\ bm25_docs' = o.bm25_docs
           /\ lastOp' = OpStore("add_documents", d, <<Page(1, cs)>>, o.raised,
                                 FALSE, o.store)
    /\ results' = <<>>
    /\ UNCHANGED <<deleted, fuseVars, chunkVars, restVars>>

\* The faults an ingest can meet: the doc_id is fresh, so the cleanup finds
\* nothing to delete and leaves the store alone whether or not its listing
\* fails; the failures of the listing of the rebuild are of one kind.
IngestFaults == {f \in Faults : ~f.get1 /\ ~f.del1 /\ ~f.si}

\* uuid4 gives a fresh doc_id; which of the unused ones it is makes no
\* difference, so they are taken in one order
FreshDocIds == IF "d1" \in used THEN DocIds \ used ELSE {"d1"}

SpecIngestNext ==
    \/ \E d \in FreshDocIds, pages \in PageLists, f \in IngestFaults :
          IngestPages(d, pages, f)
    \/ \E d \in FreshDocIds, cs \in PageChunkLists(1), f \in IngestFaults :
          IngestText(d, cs, f)

SpecIngest == SpecIngestInit /\ [][SpecIngestNext]_vars

\* chunks of the pages before page p
RECURSIVE ChunksBefore(_, _)
ChunksBefore(pages, p) ==
    IF p <= 1 THEN 0
    ELSE ChunksBefore(pages, p - 1) + Len(pages[p - 1].chunks)

\* C23: after an add_documents that completed for a document of n >= 1
\* chunks, the store holds for it exactly the ids doc_id_0 .. doc_id_(n-1),
\* the chunk under doc_id_i has chunk_index i, and chunk c of page p is
\* stored at the number of chunks of the earlier pages plus c - 1, with the
\* page number of p.
C23_IndicesRunAcrossPages ==
    (lastOp.op = "add_documents" /\ lastOp.raised = "none") =>
        LET d == lastOp.doc
            pages == lastOp.chunks
            n == ChunksBefore(pages, Len(pages) + 1)
        IN  n >= 1 =>
              /\ IdsOfDoc(collection, d) = {<<d, i>> : i \in 0..(n - 1)}
              /\ \A id \in IdsOfDoc(collection, d) :
                    /\ collection[id].metadata.chunk_index = id[2]
                    /\ collection[id].metadata.doc_id = d
              /\ \A p \in 1..Len(pages) : \A c \in 1..Len(pages[p].chunks) :
                    LET id == <<d, ChunksBefore(pages, p) + c - 1>>
                    IN  /\ id \in DOMAIN collection
                        /\ collection[id].document = pages[p].chunks[c]
                        /\ collection[id].metadata.page_number = pages[p].label

\* a document of two pages with chunks has been ingested beside another
\* document
C23_Witness ==
    /\ lastOp.op = "add_documents" /\ lastOp.raised = "none"
    /\ Len(lastOp.chunks) = 2
    /\ Len(lastOp.chunks[1].chunks) >= 2 /\ Len(lastOp.chunks[2].chunks) >= 1
    /\ \E id \in DOMAIN collection : id[1] # lastOp.doc

(***************************************************************************)
(* SpecPipeline: RAGPipeline.ask and ask_stream from the question to the   *)
(* call of the generation service: search, the neighbour expansion of      *)
(* retrieve, results[:k] and _build_context, over a store of two ingested  *)
(* documents.                                                              *)
(***************************************************************************)
ChunkNames == <<"x", "y", "z", "u", "v", "w">>

\* The stores: up to MaxDocChunks chunks, those of document d1 with distinct
\* texts and at most one of document d2, whose text is its own or that of
\* d1_0 (the same source ingested twice).
PipelineStores ==
    UNION {{[id \in NewIds("d1", n) \cup NewIds("d2", m) |->
                IF id[1] = "d1" THEN ChunkNames[id[2] + 1] ELSE t] :
              m \in 0..Min(1, MaxDocChunks - n),
              t \in {ChunkNames[1], ChunkNames[MaxDocChunks + 1]}} :
           n \in 0..MaxDocChunks}

\* one block of _build_context: document name, page line and text; the
\* chunks of a non-paged document are stored with page_number 1
Block(r) ==
    [name |-> IF r.metadata = NoMeta THEN "Unknown document" ELSE r.metadata[1],
     page |-> IF r.metadata = NoMeta THEN "Page: Unknown" ELSE "Page: 1",
     text |-> r.document]

\* RAGPipeline._build_context: the blocks, in order
build_context(rs) == [i \in 1..Len(rs) |-> Block(rs[i])]

\* results[:k]
first_k(rs, k) == SubSeq(rs, 1, Min(k, Len(rs)))

SpecPipelineInit ==
    /\ collection \in PipelineStores
    /\ bm25_docs = rebuild_bm25(collection, FALSE)
    /\ registry = {id[1] : id \in DOMAIN collection}
    /\ used = registry /\ deleted = {}
    /\ results = <<>>
    /\ lastOp = Op("init", NoDoc, <<>>, "none", FALSE)
    /\ FuseIdle /\ ChunkIdle /\ QueryIdle /\ RebuildIdle
    /\ ask_op = "none" /\ retrieved = <<>> /\ stream = <<>> /\ answer = <<>>
    /\ ask_raised = "none" /\ gen_calls = 0 /\ gen_failed = FALSE
    /\ apc = "start" /\ context = <<>>

PipelineKeeps == <<lifeVars, fpc, chunkVars, queryVars, rebuildVars, stream,
                   gen_failed>>

\* ask / ask_stream (question, k) -> retrieve -> vector_store.search(query,
\* k=k): the two lists and the fused ranking; a failing embedding of the
\* question raises
AskSearch(k, embedFails) ==
    /\ apc = "start"
    /\ fuse_k' = k
    /\ IF embedFails
       THEN /\ ask_raised' = "embed"
            /\ apc' = "done"
            /\ UNCHANGED <<vector_results, bm25_results, ranked>>
       ELSE LET vecs == UNION {VectorLists(collection, n) :
                                 n \in QueryCounts(collection, DefaultFetchK)}
                lexs == BM25Lists(bm25_docs, Min(DefaultFetchK, MaxMatches))
            IN  \E vec \in vecs, lex \in lexs :
                   /\ vector_results' = vec
                   /\ bm25_results' = lex
                   /\ ranked' = fuse(vec, lex, k)
                   /\ apc' = "expand"
                   /\ UNCHANGED ask_raised
    /\ UNCHANGED <<ask_op, retrieved, answer, gen_calls, context, PipelineKeeps>>

\* retrieve: the loop over base_results; the lookup of the neighbours of a
\* hit with metadata can raise
AskExpand(storeFails) ==
    /\ apc = "expand"
    /\ IF storeFails
       THEN /\ \E i \in 1..Len(ranked) : ranked[i].metadata # NoMeta
            /\ ask_raised' = "store"
            /\ apc' = "done"
            /\ UNCHANGED retrieved
       ELSE /\ retrieved' = retrieve(ranked, collection)
            /\ apc' = "context"
            /\ UNCHANGED ask_raised
    /\ UNCHANGED <<ask_op, fuse_k, vector_results, bm25_results, ranked,
                   answer, gen_calls, context, PipelineKeeps>>

\* ask (or ask_stream) after retrieve: the fixed message without results,
\* otherwise context = _build_context(results[:k]) and the call of generate
\* (or generate_stream) with it
AskContext(op) ==
    /\ apc = "context"
    /\ ask_op' = op
    /\ IF retrieved = <<>>
       THEN /\ answer' = <<NoDocuments>>
            /\ apc' = "done"
            /\ UNCHANGED <<context, gen_calls>>
       ELSE /\ context' = build_context(first_k(retrieved, fuse_k))
            /\ gen_calls' = gen_calls + 1
            /\ apc' = "called"
            /\ UNCHANGED answer
    /\ UNCHANGED <<fuse_k, vector_results, bm25_results, ranked,
                   retrieved, ask_raised, PipelineKeeps>>

SpecPipelineNext ==
    \/ \E k \in 1..MaxAskK, ef \in BOOLEAN : AskSearch(k, ef)
    \/ \E sf \in BOOLEAN : AskExpand(sf)
    \/ \E op \in {"ask", "ask_stream"} : AskContext(op)

SpecPipeline == SpecPipelineInit /\ [][SpecPipelineNext]_vars

\* search has returned
Searched == apc \in {"expand", "context", "called"} \/ ask_raised = "store"
                \/ (apc = "done" /\ ask_raised = "none")

\* the keys of merged: the texts of the listed hits
MergedKeys ==
    {vector_results[i].document : i \in 1..Len(vector_results)}
        \cup {bm25_results[i].document : i \in 1..Len(bm25_results)}

KeyScore(key) == fusion_scores(vector_results, bm25_results, key)

\* position at which merged got the key
KeyIndex(key) ==
    LET both == vector_results \o bm25_results
    IN  CHOOSE i \in 1..Len(both) :
           /\ both[i].document = key
           /\ \A j \in 1..(i - 1) : both[j].document # key

\* key a comes before key b in the fused ranking
RanksBefore(a, b) ==
    \/ KeyScore(a) > KeyScore(b)
    \/ KeyScore(a) = KeyScore(b) /\ KeyIndex(a) < KeyIndex(b)

\* C21: search returns the first min(k, number of merged entries) entries of
\* the fused ranking, never more than k, and nothing when both lists are
\* empty; ask then returns the fixed message and does not call the model.
C21_TopKOrFixedMessage ==
    /\ Searched =>
          /\ Len(ranked) <= fuse_k
          /\ Len(ranked) = Min(fuse_k, Cardinality(MergedKeys))
          /\ \A p \in 1..Len(ranked) : ranked[p].document \in MergedKeys
          /\ \A p, q \in 1..Len(ranked) :
                p < q => RanksBefore(ranked[p].document, ranked[q].document)
          /\ \A key \in MergedKeys :
                (\A p \in 1..Len(ranked) : ranked[p].document # key)
                    => \A p \in 1..Len(ranked) :
                          RanksBefore(ranked[p].document, key)
          /\ (vector_results = <<>> /\ bm25_results = <<>>) => ranked = <<>>
    /\ (apc \in {"done", "called"} /\ ask_raised = "none"
          /\ vector_results = <<>> /\ bm25_results = <<>>)
          => /\ apc = "done"
             /\ answer = <<NoDocuments>>
             /\ gen_calls = 0 /\ context = <<>>

\* ask over a store that holds chunks has returned the fixed message
C21_Witness ==
    /\ apc = "done" /\ ask_raised = "none"
    /\ collection # EmptyColl
    /\ vector_results = <<>> /\ bm25_results = <<>>
    /\ answer = <<NoDocuments>> /\ gen_calls = 0

\* retrieve has returned
Expanded == apc \in {"context", "called"} \/ (apc = "done" /\ ask_raised = "none")

BaseIds == {ranked[i].id : i \in 1..Len(ranked)}

\* position of the first entry of retrieved that holds chunk id, 0 if none
FirstPos(id) ==
    IF \E j \in 1..Len(retrieved) : retrieved[j].id = id
    THEN CHOOSE j \in 1..Len(retrieved) :
            /\ retrieved[j].id = id
            /\ \A m \in 1..(j - 1) : retrieved[m].id # id
    ELSE 0

\* chunk id is a neighbour of hit h: same document, index 1 or 2 away
InWindow(id, h) ==
    /\ h.metadata # NoMeta
    /\ id[1] = h.metadata[1]
    /\ id[2] # h.metadata[2]
    /\ id[2] - h.metadata[2] \in -2..2

IsNeighbour(r) == r.distance = "absent"

\* the base hits an entry of retrieved can have been emitted for
Owners(j) ==
    IF IsNeighbour(retrieved[j])
    THEN {i \in 1..Len(ranked) : InWindow(retrieved[j].id, ranked[i])}
    ELSE {i \in 1..Len(ranked) : ranked[i] = retrieved[j]}

\* the best ranked of them
Owner(j) == CHOOSE i \in Owners(j) : \A o \in Owners(j) : i <= o

C30_BaseHitsReachTheContext ==
    apc = "called" =>
        \A i \in 1..Len(ranked) :
            \E j \in 1..Len(context) : context[j].text = ranked[i].document

(***************************************************************************)
(* Chunker.  A text is a sequence of characters; inside chunk every        *)
(* character is a pair <<character, offset in the argument of chunk>>, the *)
(* space that joins two units has offset 0.                                *)
(***************************************************************************)
Chars == {"a", "A", ".", " ", "\n"}
Strings == UNION {[1..n -> Chars] : n \in 0..MaxTextLen}

Ch(e) == e[1]
Origin(e) == e[2]
Annotate(t) == [i \in 1..Len(t) |-> <<t[i], i>>]
Plain(s) == [i \in 1..Len(s) |-> Ch(s[i])]
JoinSpace == <<" ", 0>>

IsSpace(e) == Ch(e) \in {" ", "\n"}          \* str.strip(), regex \s
IsUpper(e) == Ch(e) = "A"                    \* regex [A-Z]
IsStop(e)  == Ch(e) = "."                    \* regex [.!?]

\* str.strip()
strip(s) ==
    LET ink == {i \in 1..Len(s) : ~IsSpace(s[i])}
    IN  IF ink = {} THEN <<>>
        ELSE SubSeq(s, CHOOSE i \in ink : \A j \in ink : i <= j,
                       CHOOSE i \in ink : \A j \in ink : i >= j)

\* the slice without its last character
Slice_short(s, a, b) == SubSeq(s, a + 1, Min(b, Len(s)) - 1)

\* s[a:b] for 0 <= a
Slice(s, a, b) == SubSeq(s, a + 1, Min(b, Len(s)))

\* s.find(" ", start): 0-based index or -1
find_space(s, start) ==
    LET hits == {i \in start..(Len(s) - 1) : Ch(s[i + 1]) = " "}
    IN  IF hits = {} THEN -1 ELSE CHOOSE i \in hits : \A j \in hits : i <= j

\* s.rfind(" ", 0, end): 0-based index or -1
rfind_space(s, end) ==
    LET hits == {i \in 0..(Min(end, Len(s)) - 1) : Ch(s[i + 1]) = " "}
    IN  IF hits = {} THEN -1 ELSE CHOOSE i \in hits : \A j \in hits : i >= j

\* the matches of \n\s*\n that start at index i: the indexes they end at
BlankEnds(s, i) ==
    {j \in (i + 1)..Len(s) :
        /\ Ch(s[i]) = "\n" /\ Ch(s[j]) = "\n"
        /\ \A m \in (i + 1)..(j - 1) : IsSpace(s[m])}

\* re.split(r"\n\s*\n", s): leftmost match, as long as it can be
RECURSIVE split_blank(_)
split_blank(s) ==
    LET starts == {i \in 1..Len(s) : BlankEnds(s, i) # {}}
    IN  IF starts = {} THEN <<s>>
        ELSE LET i == CHOOSE x \in starts : \A y \in starts : x <= y
                 j == CHOOSE x \in BlankEnds(s, i) :
                         \A y \in BlankEnds(s, i) : x >= y
             IN  <<SubSeq(s, 1, i - 1)>> \o split_blank(SubSeq(s, j + 1, Len(s)))

\* the matches of (?<=[.!?])\s+(?=[A-Z]) that start at index i
StopEnds(s, i) ==
    {j \in i..(Len(s) - 1) :
        /\ i > 1 /\ IsStop(s[i - 1])
        /\ \A m \in i..j : IsSpace(s[m])
        /\ IsUpper(s[j + 1])}

\* re.split(r'(?<=[.!?])\s+(?=[A-Z])', s)
RECURSIVE split_stop(_)
split_stop(s) ==
    LET starts == {i \in 1..Len(s) : StopEnds(s, i) # {}}
    IN  IF starts = {} THEN <<s>>
        ELSE LET i == CHOOSE x \in starts : \A y \in starts : x <= y
                 j == CHOOSE x \in StopEnds(s, i) :
                         \A y \in StopEnds(s, i) : x >= y
             IN  <<SubSeq(s, 1, i - 1)>> \o split_stop(SubSeq(s, j + 1, Len(s)))

NonEmpty(p) == p # <<>>

\* [p.strip() for p in pieces if p.strip()]
cleaned(pieces) ==
    SelectSeq([i \in 1..Len(pieces) |-> strip(pieces[i])], NonEmpty)

\* Chunker._split_paragraphs
split_paragraphs(t) == cleaned(split_blank(t))

\* Chunker._split_sentences
split_sentences(paragraph) == cleaned(split_stop(paragraph))

\* the construction with > in place of >=
chunker_init_gt(size, overlap) ==
    IF overlap > size THEN "ValueError" ELSE "ok"

\* Chunker.__init__: the outcome of the construction
chunker_init(size, overlap) ==
    IF overlap >= size THEN "ValueError" ELSE "ok"

\* the concatenation without the joining space
joined_nospace(current, addition) ==
    IF current # <<>> THEN strip(current \o addition) ELSE addition

\* f"{current} {addition}".strip() if current else addition
joined(current, addition) ==
    IF current # <<>> THEN strip(current \o <<JoinSpace>> \o addition)
    ELSE addition

\* Chunker._safe_overlap
safe_overlap(t, overlap) ==
    IF t = <<>> \/ overlap <= 0 THEN <<>>
    ELSE IF Len(t) <= overlap THEN t
    ELSE LET start_index == Len(t) - overlap
             space_index == find_space(t, start_index)
         IN  IF space_index = -1 THEN Slice(t, start_index, Len(t))
             ELSE Slice(t, space_index + 1, Len(t))

\* the index at which _append_with_limit splits a new_chunk longer than
\* chunk_size: new_chunk.rfind(" ", 0, chunk_size), or chunk_size
hard_split_index(new_chunk, size) ==
    LET found == rfind_space(new_chunk, size)
    IN  IF found = -1 THEN size ELSE found

\* Chunker._append_with_limit; st is <<current, chunks>> before the call,
\* the value is <<returned current, chunks>> after it
append_with_limit(st, addition, size, overlap) ==
    LET current == st[1]
        out == st[2]
        candidate == joined(current, addition)
    IN  IF Len(candidate) <= size THEN <<candidate, out>>
        ELSE LET out1 == IF current # <<>> THEN Append(out, strip(current))
                         ELSE out
                 overlap_text == safe_overlap(current, overlap)
                 new_chunk == joined(overlap_text, addition)
             IN  IF Len(new_chunk) > size
                 THEN LET split_index == hard_split_index(new_chunk, size)
                      IN  <<strip(Slice(new_chunk, split_index, Len(new_chunk))),
                            Append(out1, strip(Slice(new_chunk, 0, split_index)))>>
                 ELSE <<new_chunk, out1>>

\* the units _merge_paragraphs appends, in order: a paragraph longer than
\* chunk_size is replaced by its sentences
RECURSIVE units_of(_, _)
units_of(paragraphs, size) ==
    IF paragraphs = <<>> THEN <<>>
    ELSE (IF Len(Head(paragraphs)) > size
          THEN split_sentences(Head(paragraphs))
          ELSE <<Head(paragraphs)>>) \o units_of(Tail(paragraphs), size)

RECURSIVE append_units(_, _, _, _)
append_units(units, n, size, overlap) ==
    IF n = 0 THEN <<<<>>, <<>>>>
    ELSE append_with_limit(append_units(units, n - 1, size, overlap),
                           units[n], size, overlap)

\* what a call of _append_with_limit computes once the candidate is too
\* long: the buffer it closes, the overlap tail, the new buffer and the
\* index it splits the new buffer at (-1 when the new buffer fits)
Flush(current, addition, size, overlap) ==
    LET overlap_text == safe_overlap(current, overlap)
        new_chunk == joined(overlap_text, addition)
    IN  [current |-> current,
         overlap_text |-> overlap_text,
         new_chunk |-> new_chunk,
         split_index |-> IF Len(new_chunk) > size
                         THEN hard_split_index(new_chunk, size) ELSE -1]

\* the Flush of every call among the first n whose candidate was too long
RECURSIVE flushes_of(_, _, _, _)
flushes_of(units, n, size, overlap) ==
    IF n = 0 THEN <<>>
    ELSE LET current == append_units(units, n - 1, size, overlap)[1]
         IN  flushes_of(units, n - 1, size, overlap)
                 \o (IF Len(joined(current, units[n])) <= size THEN <<>>
                     ELSE <<Flush(current, units[n], size, overlap)>>)

\* the flushes of Chunker.chunk(t)
chunk_flushes(t, size, overlap) ==
    IF strip(t) = <<>> THEN <<>>
    ELSE LET units == units_of(split_paragraphs(strip(t)), size)
         IN  flushes_of(units, Len(units), size, overlap)

\* Chunker._merge_paragraphs
merge_paragraphs(paragraphs, size, overlap) ==
    LET units == units_of(paragraphs, size)
        st == append_units(units, Len(units), size, overlap)
    IN  IF st[1] # <<>> THEN Append(st[2], strip(st[1])) ELSE st[2]

\* Chunker.chunk
chunk(t, size, overlap) ==
    IF strip(t) = <<>> THEN <<>>
    ELSE merge_paragraphs(split_paragraphs(strip(t)), size, overlap)

(***************************************************************************)
(* SpecChunk: a Chunker is constructed and chunks one text                 *)
(***************************************************************************)
DefaultChunkSize == 1000
DefaultChunkOverlap == 200
DocumentLength == 2600

ParagraphBreak == <<"\n", "\n">>

\* a paragraph of n characters: words of w letters, one space between them
Paragraph(n, w) ==
    [i \in 1..n |-> IF i % (w + 1) = 0 /\ i # n THEN " " ELSE "a"]

\* three paragraphs of p1, p2 and the remaining characters, DocumentLength
\* characters with the two blank lines between them
Document(p1, p2, w) ==
    Paragraph(p1, w) \o ParagraphBreak \o Paragraph(p2, w) \o ParagraphBreak
        \o Paragraph(DocumentLength - 2 * Len(ParagraphBreak) - p1 - p2, w)

\* <<p1, p2, w>> of the documents chunked with the default configuration:
\* even paragraphs, a full first paragraph, a long last paragraph, a long
\* first paragraph, and paragraphs of one unbroken word each
DocumentShapes ==
    {<<866, 866, 5>>, <<1000, 798, 5>>, <<500, 500, 9>>, <<2590, 3, 5>>,
     <<866, 866, DocumentLength>>}

Documents == {Document(sh[1], sh[2], sh[3]) : sh \in DocumentShapes}

SpecChunkInit ==
    /\ \/ /\ text \in Strings
          /\ chunk_size \in 1..MaxChunkSize
          /\ chunk_overlap \in 0..MaxOverlap
       \/ /\ text \in Documents
          /\ chunk_size = DefaultChunkSize
          /\ chunk_overlap = DefaultChunkOverlap
    /\ chunker = "unbuilt"
    /\ chunks = <<>>
    /\ flushes = <<>>
    /\ cpc = "start"
    /\ StoreIdle /\ KBIdle /\ FuseIdle /\ RestIdle

\* Chunker(chunk_size, chunk_overlap)
Construct ==
    /\ cpc = "start"
    /\ chunker' = chunker_init(chunk_size, chunk_overlap)
    /\ cpc' = "built"
    /\ UNCHANGED <<text, chunk_size, chunk_overlap, chunks, flushes, lifeVars,
                   fuseVars, restVars>>

\* chunker.chunk(text)
ChunkText ==
    /\ cpc = "built"
    /\ chunker = "ok"
    /\ chunks' = chunk(Annotate(text), chunk_size, chunk_overlap)
    /\ flushes' = chunk_flushes(Annotate(text), chunk_size, chunk_overlap)
    /\ cpc' = "chunked"
    /\ UNCHANGED <<text, chunk_size, chunk_overlap, chunker, lifeVars, fuseVars, restVars>>

SpecChunkNext == Construct \/ ChunkText

SpecChunk == SpecChunkInit /\ [][SpecChunkNext]_vars

(***************************************************************************)
(* Claims about the Chunker                                                *)
(***************************************************************************)
WS == {" ", "\n"}

\* strip(T) of a text of plain characters
PlainStrip(t) == Plain(strip(Annotate(t)))

\* t with every whitespace run that holds two or more newlines replaced by
\* one space
RECURSIVE Collapse(_)
Collapse(t) ==
    IF t = <<>> THEN <<>>
    ELSE IF t[1] \notin WS THEN <<t[1]>> \o Collapse(Tail(t))
    ELSE LET n == CHOOSE k \in 1..Len(t) :
                     /\ \A m \in 1..k : t[m] \in WS
                     /\ k = Len(t) \/ t[k + 1] \notin WS
             newlines == Cardinality({m \in 1..n : t[m] = "\n"})
         IN  (IF newlines >= 2 THEN <<" ">> ELSE SubSeq(t, 1, n))
                 \o Collapse(SubSeq(t, n + 1, Len(t)))

PlainChunks == [i \in 1..Len(chunks) |-> Plain(chunks[i])]

\* C6: every chunk emitted by chunk has at most chunk_size characters.
C6_ChunkWithinSize ==
    cpc = "chunked" => \A i \in 1..Len(chunks) : Len(chunks[i]) <= chunk_size

\* the first character of chunk c is the first character of a word of text
StartsWord(c) ==
    /\ c # <<>>
    /\ Origin(c[1]) >= 1
    /\ Origin(c[1]) = 1 \/ text[Origin(c[1]) - 1] \in WS

\* C7: every emitted chunk except the first begins at a word boundary of the
\* chunked text.
C7_ChunkStartsAtWord ==
    cpc = "chunked" => \A i \in 2..Len(chunks) : StartsWord(chunks[i])

\* the last character of chunk c is the last character of a word of text
EndsWord(c) ==
    /\ c # <<>>
    /\ Origin(c[Len(c)]) >= 1
    /\ Origin(c[Len(c)]) = Len(text) \/ text[Origin(c[Len(c)]) + 1] \in WS

\* chunk b begins with the last n characters of chunk a, 1 <= n <= most
BeginsWithTailOf(b, a, most) ==
    \E n \in 1..Min(most, Min(Len(a), Len(b))) :
        SubSeq(b, 1, n) = SubSeq(a, Len(a) - n + 1, Len(a))

\* C18: a 3-paragraph document of 2,600 characters chunked with chunk_size
\* 1000 and chunk_overlap 200 yields exactly 3 chunks of at most 1000
\* characters, the second begins with a tail of the first of at most 200
\* characters, and every chunk begins and ends at a word boundary.
C18_ThreeParagraphDocument ==
    (/\ cpc = "chunked"
     /\ Len(text) = DocumentLength
     /\ chunk_size = DefaultChunkSize /\ chunk_overlap = DefaultChunkOverlap
     /\ Len(split_paragraphs(strip(Annotate(text)))) = 3)
        => /\ Len(chunks) = 3
           /\ \A i \in 1..Len(chunks) : Len(chunks[i]) <= chunk_size
           /\ BeginsWithTailOf(chunks[2], chunks[1], chunk_overlap)
           /\ \A i \in 1..Len(chunks) :
                 StartsWord(chunks[i]) /\ EndsWord(chunks[i])

\* a is b[n:] for some n
IsSuffix(a, b) ==
    Len(a) <= Len(b) /\ a = SubSeq(b, Len(b) - Len(a) + 1, Len(b))

\* the flushes that closed a buffer with text in it
BufferFlushes == {i \in 1..Len(flushes) : flushes[i].current # <<>>}

\* C24: whenever the chunker flushes a buffer, the text it prefixes to the
\* next buffer is a suffix of the flushed buffer of at most chunk_overlap
\* characters, empty when chunk_overlap is 0, and the suffix starts directly
\* after a whitespace character of the flushed buffer unless it is the whole
\* buffer.
C24_OverlapTailIsWholeWords ==
    cpc = "chunked" =>
        \A i \in BufferFlushes :
            LET b == flushes[i].current
                o == flushes[i].overlap_text
            IN  /\ IsSuffix(o, b)
                /\ Len(o) <= chunk_overlap
                /\ chunk_overlap = 0 => o = <<>>
                /\ (o # <<>> /\ o # b) => IsSpace(b[Len(b) - Len(o)])

\* the last whitespace of s at a 0-based position <= size, or size
LastSpaceAtOrBefore(s, size) ==
    LET hits == {i \in 0..Min(size, Len(s) - 1) : IsSpace(s[i + 1])}
    IN  IF hits = {} THEN size ELSE CHOOSE i \in hits : \A j \in hits : i >= j

\* C25: a new buffer longer than chunk_size is split at the last whitespace
\* at or before position chunk_size, a whitespace at position chunk_size
\* included, and at exactly chunk_size only when its first chunk_size + 1
\* characters hold no whitespace.
C25_SplitAtLastSpaceUpToSize ==
    cpc = "chunked" =>
        \A i \in 1..Len(flushes) :
            Len(flushes[i].new_chunk) > chunk_size =>
                flushes[i].split_index
                    = LastSpaceAtOrBefore(flushes[i].new_chunk, chunk_size)

\* the emitted chunks, one after the other
RECURSIVE Concat(_, _)
Concat(cs, n) == IF n = 0 THEN <<>> ELSE Concat(cs, n - 1) \o cs[n]

\* the characters of text that belong to a word
WordPositions == {p \in 1..Len(text) : text[p] \notin WS}

\* the first place in the emitted chunks of the character at position p
FirstPlace(flat, p) ==
    LET places == {j \in 1..Len(flat) : Origin(flat[j]) = p}
    IN  IF places = {} THEN 0
        ELSE CHOOSE j \in places : \A m \in places : j <= m

\* C29: the chunker loses no text: every character of every word of the
\* input is emitted, each chunk is made of pieces of the input in the order
\* of the input, and the characters (so the words) first appear in the chunks
\* in the order of the input.
C29_NoTextLost ==
    cpc = "chunked" =>
        LET flat == Concat(chunks, Len(chunks))
            first == [p \in WordPositions |-> FirstPlace(flat, p)]
        IN  /\ \A p \in WordPositions : first[p] >= 1
            /\ \A p \in WordPositions :
                  \A q \in WordPositions :
                      (p < q /\ \A m \in (p + 1)..(q - 1) : text[m] \in WS)
                          => first[p] < first[q]
            /\ \A i \in 1..Len(chunks) : \A j \in 1..Len(chunks[i]) :
                  /\ Origin(chunks[i][j]) = 0
                        \/ Ch(chunks[i][j]) = text[Origin(chunks[i][j])]
                  /\ \A m \in (j + 1)..Min(j + 2, Len(chunks[i])) :
                        (Origin(chunks[i][j]) # 0 /\ Origin(chunks[i][m]) # 0)
                            => Origin(chunks[i][j]) < Origin(chunks[i][m])

\* a text of several words has been chunked into several chunks, one word
\* hard-split and an overlap tail repeated
C29_Witness ==
    /\ cpc = "chunked"
    /\ Len(chunks) >= 3
    /\ \E i \in 1..Len(flushes) :
          flushes[i].overlap_text # <<>> /\ flushes[i].split_index >= 1
    /\ \E p \in 1..Len(text) : text[p] \in WS

\* C8 as stated: a text no longer than chunk_size yields exactly [strip(T)].
C8_SmallTextIsItsStrip ==
    (cpc = "chunked" /\ Len(text) <= chunk_size)
        => PlainChunks = <<PlainStrip(text)>>

\* C8 amended: a text no longer than chunk_size yields no chunk when it is
\* empty or all whitespace, and otherwise exactly one chunk: strip(T) with
\* every blank-line paragraph break replaced by one space (which is strip(T)
\* itself when T has no such break).
C8_SmallTextOneChunk ==
    (cpc = "chunked" /\ Len(text) <= chunk_size)
        => PlainChunks = IF PlainStrip(text) = <<>> THEN <<>>
                         ELSE <<Collapse(PlainStrip(text))>>

\* a short text with a paragraph break has been chunked into one chunk
C8_Witness ==
    /\ cpc = "chunked" /\ Len(text) <= chunk_size
    /\ Len(chunks) = 1
    /\ PlainChunks[1] # PlainStrip(text)

\* C9: the construction fails with ValueError exactly when
\* chunk_overlap >= chunk_size, and a failed construction chunks nothing.
C9_ConstructionFailsIffOverlapTooLarge ==
    /\ cpc # "start" =>
          /\ chunker \in {"ok", "ValueError"}
          /\ chunker = "ValueError" <=> chunk_overlap >= chunk_size
    /\ cpc = "chunked" => chunk_overlap < chunk_size

\* a construction with chunk_overlap = chunk_size has failed
C9_Witness ==
    cpc = "built" /\ chunk_overlap = chunk_size /\ chunker = "ValueError"

====
